---- MODULE Spec2Model ----
(***************************************************************************)
(* A model of the region quadtree of include/Quadtree.h and the box        *)
(* geometry of include/Box.h.                                              *)
(*                                                                         *)
(* Coordinates.  The code computes in Float (float by default).  The model *)
(* uses integers: the world box is a square of side 2^(MaxDepth+1) at the  *)
(* origin, so every halving done by computeBox / getCenter down to depth   *)
(* MaxDepth is exact, as it is in binary floating point for such values.   *)
(*                                                                         *)
(* Distances.  quadtree::distance returns sqrt(dx^2 + dy^2) (or an axial   *)
(* gap).  All values compared with it are non-negative, and sqrt is        *)
(* strictly monotone on the small integers used here, so the model carries *)
(* the SQUARE of every distance (distanceSq, and the bound of findClosest) *)
(* and compares squares.                                                   *)
(*                                                                         *)
(* Assertions.  The code is modelled as built with assertions enabled: a   *)
(* failing assert stops the program (err records which one) with the tree  *)
(* as it was when the assert was evaluated.                                *)
(*                                                                         *)
(* Scale.  The source fixes Threshold = 16 and MaxDepth = 8                *)
(* (Quadtree.h:103-104).  The model keeps both as named parameters of the  *)
(* algorithms and checks them at a reduced scale.                          *)
(***************************************************************************)
EXTENDS Integers, Sequences, FiniteSets

\* ------------------------------------------------------------------ bounds

\* Quadtree.h:103 sets 16; reduced scale of the model.
Threshold == 2

\* Quadtree.h:104 sets 8; reduced scale of the model.
MaxDepth == 2

\* The largest number of items the client keeps stored at once.
MaxItems == 4

\* ---------------------------------------------------------------- geometry

Box(l, t, w, h) == [left |-> l, top |-> t, width |-> w, height |-> h]

getRight(b) == b.left + b.width

getBottom(b) == b.top + b.height

getCenter(b) == [x |-> b.left + (b.width \div 2), y |-> b.top + (b.height \div 2)]

contains(a, b) ==
    /\ a.left <= b.left
    /\ getRight(b) <= getRight(a)
    /\ a.top <= b.top
    /\ getBottom(b) <= getBottom(a)

intersects(a, b) ==
    ~ (\/ a.left >= getRight(b)
       \/ getRight(a) <= b.left
       \/ a.top >= getBottom(b)
       \/ getBottom(a) <= b.top)

\* distance without its fourth branch (a to the left of and below b), which
\* then falls to the branch of the horizontal gap.
distanceSqThreeCorners(a, b) ==
    LET al == a.left
        ar == a.left + a.width
        at == a.top
        ab == a.top + a.height
        bl == b.left
        br == b.left + b.width
        bt == b.top
        bb == b.top + b.height
    IN  IF ar < bl /\ ab < bt THEN (bl - ar) * (bl - ar) + (bt - ab) * (bt - ab)
        ELSE IF al > br /\ ab < bt THEN (al - br) * (al - br) + (bt - ab) * (bt - ab)
        ELSE IF al > br /\ at > bb THEN (al - br) * (al - br) + (at - bb) * (at - bb)
        ELSE IF ar < bl THEN (bl - ar) * (bl - ar)
        ELSE IF ab < bt THEN (bt - ab) * (bt - ab)
        ELSE IF al > br THEN (al - br) * (al - br)
        ELSE IF at > bb THEN (at - bb) * (at - bb)
        ELSE 0

\* The square of quadtree::distance(a, b); the branches are the code's, in
\* the code's order.
distanceSq(a, b) ==
    LET al == a.left
        ar == a.left + a.width
        at == a.top
        ab == a.top + a.height
        bl == b.left
        br == b.left + b.width
        bt == b.top
        bb == b.top + b.height
    IN  IF ar < bl /\ ab < bt THEN (bl - ar) * (bl - ar) + (bt - ab) * (bt - ab)
        ELSE IF al > br /\ ab < bt THEN (al - br) * (al - br) + (bt - ab) * (bt - ab)
        ELSE IF al > br /\ at > bb THEN (al - br) * (al - br) + (at - bb) * (at - bb)
        ELSE IF ar < bl /\ at > bb THEN (bl - ar) * (bl - ar) + (at - bb) * (at - bb)
        ELSE IF ar < bl THEN (bl - ar) * (bl - ar)
        ELSE IF ab < bt THEN (bt - ab) * (bt - ab)
        ELSE IF al > br THEN (al - br) * (al - br)
        ELSE IF at > bb THEN (at - bb) * (at - bb)
        ELSE 0

\* ------------------------------------------------------------- the inputs

WorldSize == 2 ^ (MaxDepth + 1)

\* mBox, the world box given to the constructor.
mBox == Box(0, 0, WorldSize, WorldSize)

\* The boxes of the items the client adds (T = (id, box), as TestItem).
ItemBox ==
    << Box(0, 0, 1, 1),
       Box(1, 0, 2, 1),
       Box(2, 2, 1, 1),
       Box(3, 3, 1, 1),
       Box(3, 3, 2, 2),
       Box(0, 0, 4, 4),
       Box(6, 6, 2, 2),
       Box(WorldSize - 1, WorldSize - 1, 2, 2) >>

Items == { [id |-> i, box |-> ItemBox[i]] : i \in DOMAIN ItemBox }

\* mGetBox
getBox(value) == value.box

\* mEqual (std::equal_to<T>)
mEqual(a, b) == a = b

\* ------------------------------------------------------------------ state

VARIABLES
    nodes,    \* the tree under mRoot: path of child indices |-> node->values
    balance,  \* completed add calls minus completed remove calls
    last,     \* the most recent public call and what it returned
    err       \* "none", or the assertion that stopped the program

vars == << nodes, balance, last, err >>

NoErr == "none"

\* A Node*: nullptr, or the node at a path.
Nullptr == [isNull |-> TRUE, path |-> << >>]

\* A parent pointer that always names the root.
PtrToRoot(p) == [isNull |-> FALSE, path |-> << >>]

Ptr(p) == [isNull |-> FALSE, path |-> p]

\* mRoot.get()
mRoot == << >>

child(n, i) == Append(n, i)

\* The occupied child slots of node n (node->children[i] != nullptr).
childSlots(t, n) == { i \in 0..3 : child(n, i) \in DOMAIN t }

isLeaf(t, n) == child(n, 0) \notin DOMAIN t

computeBox(box, i) ==
    LET originX == box.left
        originY == box.top
        childW == box.width \div 2
        childH == box.height \div 2
    IN  CASE i = 0 -> Box(originX, originY, childW, childH)
          [] i = 1 -> Box(originX + childW, originY, childW, childH)
          [] i = 2 -> Box(originX, originY + childH, childW, childH)
          [] i = 3 -> Box(originX + childW, originY + childH, childW, childH)

\* getQuadrant with the West test made on the left side of the value's box
\* instead of its right side.
getQuadrantByLeft(nodeBox, valueBox) ==
    LET center == getCenter(nodeBox)
    IN  IF valueBox.left < center.x
        THEN IF getBottom(valueBox) < center.y THEN 0
             ELSE IF valueBox.top >= center.y THEN 2
             ELSE -1
        ELSE IF valueBox.left >= center.x
        THEN IF getBottom(valueBox) < center.y THEN 1
             ELSE IF valueBox.top >= center.y THEN 3
             ELSE -1
        ELSE -1

\* getQuadrant with the South test made with > in place of >=.
getQuadrantStrictSouth(nodeBox, valueBox) ==
    LET center == getCenter(nodeBox)
    IN  IF getRight(valueBox) < center.x
        THEN IF getBottom(valueBox) < center.y THEN 0
             ELSE IF valueBox.top > center.y THEN 2
             ELSE -1
        ELSE IF valueBox.left >= center.x
        THEN IF getBottom(valueBox) < center.y THEN 1
             ELSE IF valueBox.top > center.y THEN 3
             ELSE -1
        ELSE -1

getQuadrant(nodeBox, valueBox) ==
    LET center == getCenter(nodeBox)
    IN  IF getRight(valueBox) < center.x
        THEN IF getBottom(valueBox) < center.y THEN 0
             ELSE IF valueBox.top >= center.y THEN 2
             ELSE -1
        ELSE IF valueBox.left >= center.x
        THEN IF getBottom(valueBox) < center.y THEN 1
             ELSE IF valueBox.top >= center.y THEN 3
             ELSE -1
        ELSE -1

\* node->values.push_back(value)
pushBack(t, n, value) == [t EXCEPT ![n] = Append(@, value)]

\* split that clears node->values instead of keeping the values that fit no
\* quadrant.
splitLosing(t, n, box) ==
    LET quadrantOf(value) == getQuadrant(box, getBox(value))
        childValues(i) == SelectSeq(t[n], LAMBDA v : quadrantOf(v) = i)
    IN  [p \in DOMAIN t \cup { child(n, i) : i \in 0..3 } |->
            IF p = n THEN << >>
            ELSE IF \E i \in 0..3 : p = child(n, i)
                 THEN childValues(CHOOSE i \in 0..3 : p = child(n, i))
                 ELSE t[p]]

\* split that creates the children and leaves every value in the node.
splitKeeping(t, n, box) ==
    [p \in DOMAIN t \cup { child(n, i) : i \in 0..3 } |->
        IF p \in DOMAIN t THEN t[p] ELSE << >>]

split(t, n, box) ==
    LET quadrantOf(value) == getQuadrant(box, getBox(value))
        newValues == SelectSeq(t[n], LAMBDA v : quadrantOf(v) = -1)
        childValues(i) == SelectSeq(t[n], LAMBDA v : quadrantOf(v) = i)
    IN  [p \in DOMAIN t \cup { child(n, i) : i \in 0..3 } |->
            IF p = n THEN newValues
            ELSE IF \E i \in 0..3 : p = child(n, i)
                 THEN childValues(CHOOSE i \in 0..3 : p = child(n, i))
                 ELSE t[p]]

\* canInsert with <= in place of <.
canInsertOffByOne(t, n, depth) == depth >= MaxDepth \/ Len(t[n]) <= Threshold

\* The test of add on a leaf: the value is inserted in this node.
\* The leaf test of add without the depth bound.
canInsertIgnoringDepth(t, n, depth) == Len(t[n]) < Threshold

canInsert(t, n, depth) == depth >= MaxDepth \/ Len(t[n]) < Threshold

\* add(node, depth, box, value).  splits counts the calls of split made so
\* far by this add; site is the node that received the value.
RECURSIVE add(_, _, _, _, _, _)
\* add with the assertion on the value's box made only where the value is
\* pushed, after the descent and the splits.
addLateAssert(t, n, depth, box, value, splits) ==
    IF isLeaf(t, n)
    THEN IF canInsert(t, n, depth)
         THEN IF ~ contains(box, getBox(value))
              THEN [nodes |-> t, err |-> "add: box.contains(mGetBox(value))",
                    site |-> n, splits |-> splits]
              ELSE [nodes |-> pushBack(t, n, value), err |-> NoErr,
                    site |-> n, splits |-> splits]
         ELSE add(split(t, n, box), n, depth, box, value, splits + 1)
    ELSE LET i == getQuadrant(box, getBox(value))
         IN  IF i # -1
             THEN add(t, child(n, i), depth + 1, computeBox(box, i), value, splits)
             ELSE IF ~ contains(box, getBox(value))
             THEN [nodes |-> t, err |-> "add: box.contains(mGetBox(value))",
                   site |-> n, splits |-> splits]
             ELSE [nodes |-> pushBack(t, n, value), err |-> NoErr,
                   site |-> n, splits |-> splits]

add(t, n, depth, box, value, splits) ==
    IF ~ contains(box, getBox(value))
    THEN [nodes |-> t, err |-> "add: box.contains(mGetBox(value))",
          site |-> n, splits |-> splits]
    ELSE IF isLeaf(t, n)
    THEN IF canInsert(t, n, depth)
         THEN [nodes |-> pushBack(t, n, value), err |-> NoErr,
               site |-> n, splits |-> splits]
         ELSE add(split(t, n, box), n, depth, box, value, splits + 1)
    ELSE LET i == getQuadrant(box, getBox(value))
         IN  IF i # -1
             THEN add(t, child(n, i), depth + 1, computeBox(box, i), value, splits)
             ELSE [nodes |-> pushBack(t, n, value), err |-> NoErr,
                   site |-> n, splits |-> splits]

\* The index std::find_if returns in node->values, 0 for end().
findIf(values, value) ==
    IF \E k \in 1..Len(values) : mEqual(value, values[k])
    THEN CHOOSE k \in 1..Len(values) :
            /\ mEqual(value, values[k])
            /\ \A j \in 1..(k - 1) : ~ mEqual(value, values[j])
    ELSE 0

\* *it = std::move(values.back()); values.pop_back()
swapAndPop(values, it) ==
    [k \in 1..(Len(values) - 1) |-> IF k = it THEN values[Len(values)] ELSE values[k]]

\* removeValue without the assertion: when no value is equal, the last value
\* of the bucket (if any) is popped all the same.
removeValueUnchecked(t, n, value) ==
    LET it == findIf(t[n], value)
    IN  IF it = 0
        THEN [nodes |-> [t EXCEPT ![n] = SubSeq(@, 1, Len(@) - 1)], err |-> NoErr]
        ELSE [nodes |-> [t EXCEPT ![n] = swapAndPop(@, it)], err |-> NoErr]

removeValue(t, n, value) ==
    LET it == findIf(t[n], value)
    IN  IF it = 0
        THEN [nodes |-> t, err |-> "removeValue: value not present in the node"]
        ELSE [nodes |-> [t EXCEPT ![n] = swapAndPop(@, it)], err |-> NoErr]

\* The values of the children of n, child 0 first.
RECURSIVE childrenValues(_, _, _)
childrenValues(t, n, i) ==
    IF i > 3 THEN << >> ELSE t[child(n, i)] \o childrenValues(t, n, i + 1)

\* tryMerge that removes the children without merging their values.
tryMergeDropping(t, n) ==
    IF isLeaf(t, n)
    THEN [nodes |-> t, err |-> "tryMerge: only interior nodes can be merged", merged |-> FALSE]
    ELSE IF \E i \in 0..3 : ~ isLeaf(t, child(n, i))
    THEN [nodes |-> t, err |-> NoErr, merged |-> FALSE]
    ELSE LET nbValues == Len(t[n]) + Len(childrenValues(t, n, 0))
         IN  IF nbValues <= Threshold
             THEN [nodes |-> [p \in DOMAIN t \ { child(n, i) : i \in 0..3 } |-> t[p]],
                   err |-> NoErr, merged |-> TRUE]
             ELSE [nodes |-> t, err |-> NoErr, merged |-> FALSE]

\* tryMerge that resets the first three children only.
tryMergePartial(t, n) ==
    IF isLeaf(t, n)
    THEN [nodes |-> t, err |-> "tryMerge: only interior nodes can be merged", merged |-> FALSE]
    ELSE IF \E i \in 0..3 : ~ isLeaf(t, child(n, i))
    THEN [nodes |-> t, err |-> NoErr, merged |-> FALSE]
    ELSE LET nbValues == Len(t[n]) + Len(childrenValues(t, n, 0))
         IN  IF nbValues <= Threshold
             THEN [nodes |-> [p \in DOMAIN t \ { child(n, i) : i \in 0..2 } |->
                                IF p = n THEN t[n] \o childrenValues(t, n, 0) ELSE t[p]],
                   err |-> NoErr, merged |-> TRUE]
             ELSE [nodes |-> t, err |-> NoErr, merged |-> FALSE]

\* tryMerge with nbValues < Threshold in place of nbValues <= Threshold.
tryMergeStrict(t, n) ==
    IF isLeaf(t, n)
    THEN [nodes |-> t, err |-> "tryMerge: only interior nodes can be merged", merged |-> FALSE]
    ELSE IF \E i \in 0..3 : ~ isLeaf(t, child(n, i))
    THEN [nodes |-> t, err |-> NoErr, merged |-> FALSE]
    ELSE LET nbValues == Len(t[n]) + Len(childrenValues(t, n, 0))
         IN  IF nbValues < Threshold
             THEN [nodes |-> [p \in DOMAIN t \ { child(n, i) : i \in 0..3 } |->
                                IF p = n THEN t[n] \o childrenValues(t, n, 0) ELSE t[p]],
                   err |-> NoErr, merged |-> TRUE]
             ELSE [nodes |-> t, err |-> NoErr, merged |-> FALSE]

\* The tree with the four leaf children of n folded into n.
collapsed(t, n) ==
    [p \in DOMAIN t \ { child(n, i) : i \in 0..3 } |->
        IF p = n THEN t[n] \o childrenValues(t, n, 0) ELSE t[p]]

\* tryMerge that, having merged n, goes on to merge the parent of n.
tryMergeClimbing(t, n) ==
    IF isLeaf(t, n)
    THEN [nodes |-> t, err |-> "tryMerge: only interior nodes can be merged", merged |-> FALSE]
    ELSE IF \E i \in 0..3 : ~ isLeaf(t, child(n, i))
    THEN [nodes |-> t, err |-> NoErr, merged |-> FALSE]
    ELSE IF Len(t[n]) + Len(childrenValues(t, n, 0)) > Threshold
    THEN [nodes |-> t, err |-> NoErr, merged |-> FALSE]
    ELSE LET t1 == collapsed(t, n)
             up == SubSeq(n, 1, Len(n) - 1)
         IN  IF /\ Len(n) > 0
                /\ \A i \in 0..3 : isLeaf(t1, child(up, i))
                /\ Len(t1[up]) + Len(childrenValues(t1, up, 0)) <= Threshold
             THEN [nodes |-> collapsed(t1, up), err |-> NoErr, merged |-> TRUE]
             ELSE [nodes |-> t1, err |-> NoErr, merged |-> TRUE]

\* tryMerge that hands the values of the children to the root in place of n.
tryMergeIntoRoot(t, n) ==
    IF isLeaf(t, n)
    THEN [nodes |-> t, err |-> "tryMerge: only interior nodes can be merged", merged |-> FALSE]
    ELSE IF \E i \in 0..3 : ~ isLeaf(t, child(n, i))
    THEN [nodes |-> t, err |-> NoErr, merged |-> FALSE]
    ELSE IF Len(t[n]) + Len(childrenValues(t, n, 0)) > Threshold
    THEN [nodes |-> t, err |-> NoErr, merged |-> FALSE]
    ELSE [nodes |-> [p \in DOMAIN t \ { child(n, i) : i \in 0..3 } |->
                        IF p = << >> THEN t[p] \o childrenValues(t, n, 0) ELSE t[p]],
          err |-> NoErr, merged |-> TRUE]

tryMerge(t, n) ==
    IF isLeaf(t, n)
    THEN [nodes |-> t, err |-> "tryMerge: only interior nodes can be merged", merged |-> FALSE]
    ELSE IF \E i \in 0..3 : ~ isLeaf(t, child(n, i))
    THEN [nodes |-> t, err |-> NoErr, merged |-> FALSE]
    ELSE LET nbValues == Len(t[n]) + Len(childrenValues(t, n, 0))
         IN  IF nbValues <= Threshold
             THEN [nodes |-> [p \in DOMAIN t \ { child(n, i) : i \in 0..3 } |->
                                IF p = n THEN t[n] \o childrenValues(t, n, 0) ELSE t[p]],
                   err |-> NoErr, merged |-> TRUE]
             ELSE [nodes |-> t, err |-> NoErr, merged |-> FALSE]

\* remove(node, parent, box, value).  site is the node whose bucket the
\* descent reached, atLeaf whether it was a leaf, merges the number of calls
\* of tryMerge that collapsed a node.
RECURSIVE remove(_, _, _, _, _)
remove(t, n, parent, box, value) ==
    IF ~ contains(box, getBox(value))
    THEN [nodes |-> t, err |-> "remove: box.contains(mGetBox(value))",
          site |-> n, atLeaf |-> isLeaf(t, n), tried |-> 0, merges |-> 0]
    ELSE IF isLeaf(t, n)
    THEN LET r == removeValue(t, n, value)
         IN  IF r.err # NoErr
             THEN [nodes |-> r.nodes, err |-> r.err,
                   site |-> n, atLeaf |-> TRUE, tried |-> 0, merges |-> 0]
             ELSE IF ~ parent.isNull
             THEN LET m == tryMerge(r.nodes, parent.path)
                  IN  [nodes |-> m.nodes, err |-> m.err, site |-> n, atLeaf |-> TRUE,
                       tried |-> 1, merges |-> IF m.merged THEN 1 ELSE 0]
             ELSE [nodes |-> r.nodes, err |-> NoErr,
                   site |-> n, atLeaf |-> TRUE, tried |-> 0, merges |-> 0]
    ELSE LET i == getQuadrant(box, getBox(value))
         IN  IF i # -1
             THEN remove(t, child(n, i), Ptr(n), computeBox(box, i), value)
             ELSE LET r == removeValue(t, n, value)
                  IN  [nodes |-> r.nodes, err |-> r.err,
                       site |-> n, atLeaf |-> FALSE, tried |-> 0, merges |-> 0]

\* ------------------------------------------------------- read operations

\* query(node, box, queryBox, values): values is the vector filled so far.
RECURSIVE query(_, _, _, _, _)
RECURSIVE queryChildren(_, _, _, _, _, _)
query(t, n, box, queryBox, values) ==
    IF ~ intersects(queryBox, box)
    THEN [values |-> values, err |-> "query: queryBox.intersects(box)"]
    ELSE LET here == values \o SelectSeq(t[n], LAMBDA v : intersects(queryBox, getBox(v)))
         IN  IF isLeaf(t, n)
             THEN [values |-> here, err |-> NoErr]
             ELSE queryChildren(t, n, box, queryBox, 0, here)

\* The loop of query stopping one child short (i < children.size() - 1).
queryChildrenOneShort(t, n, box, queryBox, i, values) ==
    IF i > 2
    THEN [values |-> values, err |-> NoErr]
    ELSE LET childBox == computeBox(box, i)
         IN  IF intersects(queryBox, childBox)
             THEN LET r == query(t, child(n, i), childBox, queryBox, values)
                  IN  IF r.err # NoErr THEN r
                      ELSE queryChildren(t, n, box, queryBox, i + 1, r.values)
             ELSE queryChildren(t, n, box, queryBox, i + 1, values)

\* The loop of query over the children i, i+1, .., 3 of n.
queryChildren(t, n, box, queryBox, i, values) ==
    IF i > 3
    THEN [values |-> values, err |-> NoErr]
    ELSE LET childBox == computeBox(box, i)
         IN  IF intersects(queryBox, childBox)
             THEN LET r == query(t, child(n, i), childBox, queryBox, values)
                  IN  IF r.err # NoErr THEN r
                      ELSE queryChildren(t, n, box, queryBox, i + 1, r.values)
             ELSE queryChildren(t, n, box, queryBox, i + 1, values)

\* The double loop of findAllIntersections over node->values: (i, j), j < i,
\* 1-based here.
RECURSIVE intersectionsInNode(_, _, _, _)
intersectionsInNode(values, i, j, intersections) ==
    IF i > Len(values) THEN intersections
    ELSE IF j >= i THEN intersectionsInNode(values, i + 1, 1, intersections)
    ELSE intersectionsInNode(values, i, j + 1,
            IF intersects(getBox(values[i]), getBox(values[j]))
            THEN Append(intersections, << values[i], values[j] >>)
            ELSE intersections)

RECURSIVE findIntersectionsInDescendants(_, _, _, _)
RECURSIVE descendantsOfChildren(_, _, _, _, _)
\* findIntersectionsInDescendants that tests the values of the node and does
\* not go on to its descendants.
findIntersectionsInNodeOnly(t, n, value, intersections) ==
    LET hits == SelectSeq(t[n], LAMBDA other : intersects(getBox(value), getBox(other)))
    IN  intersections \o [k \in 1..Len(hits) |-> << value, hits[k] >>]

findIntersectionsInDescendants(t, n, value, intersections) ==
    LET hits == SelectSeq(t[n], LAMBDA other : intersects(getBox(value), getBox(other)))
        here == intersections \o [k \in 1..Len(hits) |-> << value, hits[k] >>]
    IN  IF isLeaf(t, n) THEN here
        ELSE descendantsOfChildren(t, n, value, 0, here)

\* The loop of findIntersectionsInDescendants over the children i, .., 3.
descendantsOfChildren(t, n, value, i, intersections) ==
    IF i > 3 THEN intersections
    ELSE descendantsOfChildren(t, n, value, i + 1,
            findIntersectionsInDescendants(t, child(n, i), value, intersections))

\* The loop of findAllIntersections over the values k, k+1, .. of node n,
\* each tested against the subtree of child c.
RECURSIVE valuesAgainstChild(_, _, _, _, _)
valuesAgainstChild(t, n, c, k, intersections) ==
    IF k > Len(t[n]) THEN intersections
    ELSE valuesAgainstChild(t, n, c, k + 1,
            findIntersectionsInDescendants(t, child(n, c), t[n][k], intersections))

RECURSIVE valuesAgainstChildren(_, _, _, _)
valuesAgainstChildren(t, n, c, intersections) ==
    IF c > 3 THEN intersections
    ELSE valuesAgainstChildren(t, n, c + 1, valuesAgainstChild(t, n, c, 1, intersections))

RECURSIVE findAllIntersections(_, _, _)
RECURSIVE intersectionsInChildren(_, _, _, _)
findAllIntersections(t, n, intersections) ==
    LET own == intersectionsInNode(t[n], 1, 1, intersections)
    IN  IF isLeaf(t, n) THEN own
        ELSE intersectionsInChildren(t, n, 0, valuesAgainstChildren(t, n, 0, own))

\* The last loop of findAllIntersections, over the children i, .., 3.
intersectionsInChildren(t, n, i, intersections) ==
    IF i > 3 THEN intersections
    ELSE intersectionsInChildren(t, n, i + 1,
            findAllIntersections(t, child(n, i), intersections))

\* A const T*: nullptr, or the address of the k-th value of node n.
NullItem == [isNull |-> TRUE, node |-> << >>, idx |-> 0]

ItemPtr(n, k) == [isNull |-> FALSE, node |-> n, idx |-> k]

\* The initial bound of findClosest, std::abs(mBox.width) + std::abs(mBox.height),
\* squared.
Abs(x) == IF x < 0 THEN -x ELSE x

initialBestSq == (Abs(mBox.width) + Abs(mBox.height)) * (Abs(mBox.width) + Abs(mBox.height))

\* The loop of findClosestImpl over node.values from index k on; a predicate
\* is the set of the items it accepts.
RECURSIVE closestInNode(_, _, _, _, _, _)
closestInNode(t, n, k, searchBox, best, predicate) ==
    IF k > Len(t[n]) THEN best
    ELSE LET itm == t[n][k]
             currBox == getBox(itm)
             currDist == distanceSq(currBox, searchBox)
         IN  closestInNode(t, n, k + 1, searchBox,
                IF currDist < best.dist /\ itm \in predicate
                THEN [ptr |-> ItemPtr(n, k), dist |-> currDist]
                ELSE best,
                predicate)

\* The order in which findClosestImpl visits the children.
childOrder(searchBox, nodeBox) ==
    LET rl == IF searchBox.left * 2 + searchBox.width > nodeBox.left * 2 + nodeBox.width
              THEN 1 ELSE 0
        bt == IF searchBox.top * 2 + searchBox.height > nodeBox.top * 2 + nodeBox.height
              THEN 1 ELSE 0
    IN  << bt * 2 + rl, bt * 2 + (1 - rl), (1 - bt) * 2 + rl, (1 - bt) * 2 + (1 - rl) >>

\* The bound of findClosestImpl with the squared distance to the region
\* compared with the distance of the incumbent (bestDist is the square of
\* that distance here, so both sides are squared once more).
prunedBySquare(searchBox, nodeBox, bestDist) ==
    distanceSq(searchBox, nodeBox) * distanceSq(searchBox, nodeBox) > bestDist

\* Whether findClosestImpl returns at once at a node of region nodeBox.
pruned(searchBox, nodeBox, bestDist) == distanceSq(searchBox, nodeBox) > bestDist

RECURSIVE findClosestImpl(_, _, _, _, _, _)
RECURSIVE closestInChildren(_, _, _, _, _, _, _, _)
findClosestImpl(t, searchBox, best, n, nodeBox, predicate) ==
    IF pruned(searchBox, nodeBox, best.dist) THEN best
    ELSE closestInChildren(t, searchBox, closestInNode(t, n, 1, searchBox, best, predicate),
                           n, nodeBox, predicate, childOrder(searchBox, nodeBox), 1)

\* The loop of findClosestImpl over indices[k], indices[k+1], ..
closestInChildren(t, searchBox, best, n, nodeBox, predicate, indices, k) ==
    IF k > Len(indices) THEN best
    ELSE LET i == indices[k]
         IN  closestInChildren(t, searchBox,
                IF child(n, i) \in DOMAIN t
                THEN findClosestImpl(t, searchBox, best, child(n, i),
                                     computeBox(nodeBox, i), predicate)
                ELSE best,
                n, nodeBox, predicate, indices, k + 1)

\* The boxes the client queries with.
QuerySpans == { << 0, WorldSize >>, << 1, 2 >>, << 3, 1 >>, << 4, 3 >> }

QueryBoxes ==
    { Box(x[1], y[1], x[2], y[2]) : x \in QuerySpans, y \in QuerySpans }
    \cup { Box(WorldSize, 0, 2, 2), Box(0 - 3, 1, 2, 2) }

\* The boxes the client searches the closest item of: inside the world,
\* overlapping it, outside it, and far outside it.
SearchBoxes ==
    { Box(0, 2, 1, 1), Box(4, 4, 1, 1), Box(3, 5, 1, 1), Box(7, 0, 1, 1),
      Box(0, 0, WorldSize, WorldSize), Box(WorldSize - 1, WorldSize - 1, 3, 3),
      Box(WorldSize + 1, 3, 1, 1), Box(3 * WorldSize, 3 * WorldSize, 1, 1) }

\* The predicates the client passes to findClosest.
Predicates ==
    { Items,
      { v \in Items : v.id \in {4, 7} },
      { v \in Items : v.id = 6 } }

\* ---------------------------------------------------------------- actions

\* The stored items, with their places.
Places(t) == UNION { { << n, k >> : k \in 1..Len(t[n]) } : n \in DOMAIN t }

RECURSIVE SumLen(_, _)
SumLen(t, S) ==
    IF S = {} THEN 0
    ELSE LET n == CHOOSE x \in S : TRUE IN Len(t[n]) + SumLen(t, S \ {n})

\* The number of items over all buckets.
size(t) == SumLen(t, DOMAIN t)

\* No call has been made, or the client has taken the result of the last one.
NoCall == [op |-> "none"]

\* Quadtree(box, getBox, equal): an empty root.
Init ==
    /\ nodes = [n \in {mRoot} |-> << >>]
    /\ balance = 0
    /\ last = NoCall
    /\ err = NoErr

\* void add(const T& value)
Add(value) ==
    /\ err = NoErr
    /\ last = NoCall
    /\ size(nodes) < MaxItems
    /\ LET r == add(nodes, mRoot, 0, mBox, value, 0)
       IN  /\ nodes' = r.nodes
           /\ err' = r.err
           /\ balance' = IF r.err = NoErr THEN balance + 1 ELSE balance
           /\ last' = [op |-> "add", value |-> value, site |-> r.site,
                       splits |-> r.splits]

\* void remove(const T& value)
Remove(value) ==
    /\ err = NoErr
    /\ last = NoCall
    /\ LET r == remove(nodes, mRoot, Nullptr, mBox, value)
       IN  /\ nodes' = r.nodes
           /\ err' = r.err
           /\ balance' = IF r.err = NoErr THEN balance - 1 ELSE balance
           /\ last' = [op |-> "remove", value |-> value, site |-> r.site,
                       atLeaf |-> r.atLeaf, tried |-> r.tried, merges |-> r.merges]

\* vector_type<T> query(const Box<Float>& box) const
Query(queryBox) ==
    /\ err = NoErr
    /\ last = NoCall
    /\ LET r == query(nodes, mRoot, mBox, queryBox, << >>)
       IN  /\ err' = r.err
           /\ last' = [op |-> "query", queryBox |-> queryBox, values |-> r.values]
    /\ UNCHANGED << nodes, balance >>

\* vector_type<std::pair<T, T>> findAllIntersections() const
FindAllIntersections ==
    /\ err = NoErr
    /\ last = NoCall
    /\ last' = [op |-> "findAllIntersections",
                intersections |-> findAllIntersections(nodes, mRoot, << >>)]
    /\ UNCHANGED << nodes, balance, err >>

\* const T* findClosest(const Box<Float>& box, P&& predicate) const
FindClosest(searchBox, predicate) ==
    /\ err = NoErr
    /\ last = NoCall
    /\ last' = [op |-> "findClosest", searchBox |-> searchBox, predicate |-> predicate,
                found |-> findClosestImpl(nodes, searchBox,
                                          [ptr |-> NullItem, dist |-> initialBestSq],
                                          mRoot, mBox, predicate).ptr]
    /\ UNCHANGED << nodes, balance, err >>

\* The client has the result of the call that returned and goes on to its
\* next call.
Continue ==
    /\ err = NoErr
    /\ last # NoCall
    /\ last' = NoCall
    /\ UNCHANGED << nodes, balance, err >>

\* The sides of the boxes the client measures the distance of, per axis, as
\* (left or top, width or height): those of the Distance test and a box of
\* no extent.
DistanceSpans ==
    { << 0, 10 >>, << 8, 10 >>, << 10, 10 >>, << 15, 10 >>, << 30, 10 >>,
      << 40, 10 >>, << 55, 10 >>, << 20, 0 >> }

DistanceBoxes == { Box(x[1], y[1], x[2], y[2]) : x \in DistanceSpans, y \in DistanceSpans }

\* Float distance(const Box<Float>& a, const Box<Float>& b); result is the
\* square of the value returned.
Distance(a, b) ==
    /\ err = NoErr
    /\ last = NoCall
    /\ last' = [op |-> "distance", a |-> a, b |-> b, result |-> distanceSq(a, b)]
    /\ UNCHANGED << nodes, balance, err >>

Next ==
    \/ \E value \in Items : Add(value)
    \/ \E value \in Items : Remove(value)
    \/ \E queryBox \in QueryBoxes : Query(queryBox)
    \/ FindAllIntersections
    \/ \E searchBox \in SearchBoxes, predicate \in Predicates : FindClosest(searchBox, predicate)
    \/ Continue

Spec == Init /\ [][Next]_vars

\* A client that only measures distances between boxes.
NextDistance ==
    \/ \E a \in DistanceBoxes, b \in DistanceBoxes : Distance(a, b)
    \/ Continue

SpecDistance == Init /\ [][NextDistance]_vars

\* ------------------------------------------------------ shared definitions

\* The value stored at a place.
valueAt(t, place) == t[place[1]][place[2]]

\* How many stored items are equal to v.
Stored(t, v) == Cardinality({ place \in Places(t) : valueAt(t, place) = v })

\* How many entries of a sequence are equal to v.
Count(seq, v) == Cardinality({ k \in 1..Len(seq) : seq[k] = v })

\* Two boxes share interior points on both axes; edges that merely touch do
\* not count.
Overlaps(a, b) ==
    /\ a.left < b.left + b.width
    /\ b.left < a.left + a.width
    /\ a.top < b.top + b.height
    /\ b.top < a.top + a.height

\* region(n): the world box narrowed by computeBox along the path to n.
RECURSIVE region(_)
region(n) ==
    IF n = << >> THEN mBox
    ELSE computeBox(region(SubSeq(n, 1, Len(n) - 1)), n[Len(n)])

parentOf(n) == SubSeq(n, 1, Len(n) - 1)

\* The items within the world box.
InsideItems == { v \in Items : contains(mBox, getBox(v)) }

\* ------------------------------------------------------------------- C1

\* C1: a query whose box intersects the world box returns exactly the
\* multiset of the stored items whose box overlaps the query box.
QueryExact ==
    (last.op = "query" /\ intersects(last.queryBox, mBox)) =>
        /\ err = NoErr
        /\ \A v \in Items :
              Count(last.values, v) =
                 IF Overlaps(last.queryBox, getBox(v)) THEN Stored(nodes, v) ELSE 0

\* A query on a tree of depth 2 that skipped a non-empty child of the root,
\* returned an item stored at depth 2 and left a stored item out.
QueryExactWitness ==
    /\ last.op = "query"
    /\ intersects(last.queryBox, mBox)
    /\ \E i \in 0..3 :
          /\ child(mRoot, i) \in DOMAIN nodes
          /\ ~ intersects(last.queryBox, computeBox(mBox, i))
          /\ Len(nodes[child(mRoot, i)]) > 0
    /\ \E n \in DOMAIN nodes : \E k \in 1..Len(nodes[n]) :
          Len(n) = 2 /\ Count(last.values, nodes[n][k]) > 0
    /\ Len(last.values) >= 2
    /\ Len(last.values) < size(nodes)

\* ------------------------------------------------------------------- C2

\* The unordered pairs of distinct places.
PlacePairs(t) == { pp \in SUBSET Places(t) : Cardinality(pp) = 2 }

\* How many pairs of distinct stored items have the values v and w and
\* overlapping boxes.
OverlappingPairs(t, v, w) ==
    IF Overlaps(getBox(v), getBox(w))
    THEN Cardinality({ pp \in PlacePairs(t) : { valueAt(t, place) : place \in pp } = {v, w} })
    ELSE 0

\* How often the pair of v and w is reported, in either orientation.
Reported(intersections, v, w) ==
    Cardinality({ k \in 1..Len(intersections) :
                     intersections[k] = << v, w >> \/ intersections[k] = << w, v >> })

\* C2: findAllIntersections reports every unordered pair of distinct stored
\* items whose boxes overlap exactly once, and nothing else.
PairsExact ==
    last.op = "findAllIntersections" =>
        \A v \in Items, w \in Items :
            Reported(last.intersections, v, w) = OverlappingPairs(nodes, v, w)

\* A report holding a pair of one node and a pair of a root item with an
\* item two levels below, on a tree that also stores a pair that does not
\* overlap.
PairsExactWitness ==
    /\ last.op = "findAllIntersections"
    /\ \E n \in DOMAIN nodes : \E i, j \in 1..Len(nodes[n]) :
          /\ i # j
          /\ Overlaps(getBox(nodes[n][i]), getBox(nodes[n][j]))
    /\ \E n \in DOMAIN nodes : \E i \in 1..Len(nodes[mRoot]), j \in 1..Len(nodes[n]) :
          /\ Len(n) = 2
          /\ Overlaps(getBox(nodes[mRoot][i]), getBox(nodes[n][j]))
    /\ \E pp \in PlacePairs(nodes) : \E a \in pp, b \in pp :
          a # b /\ ~ Overlaps(getBox(valueAt(nodes, a)), getBox(valueAt(nodes, b)))

\* ------------------------------------------------------------------- C3

\* The stored items a predicate accepts.
Candidates(t, predicate) == { place \in Places(t) : valueAt(t, place) \in predicate }

distanceTo(t, place, searchBox) == distanceSq(getBox(valueAt(t, place)), searchBox)

\* C3: for a search box within the world box and a tree holding an item the
\* predicate accepts, findClosest returns a stored item the predicate accepts
\* at the least distance of all such items.
ClosestOptimal ==
    (/\ last.op = "findClosest"
     /\ contains(mBox, last.searchBox)
     /\ Candidates(nodes, last.predicate) # {}) =>
        /\ ~ last.found.isNull
        /\ << last.found.node, last.found.idx >> \in Candidates(nodes, last.predicate)
        /\ \A place \in Candidates(nodes, last.predicate) :
              distanceTo(nodes, << last.found.node, last.found.idx >>, last.searchBox)
                 <= distanceTo(nodes, place, last.searchBox)

\* A search on a tree of depth 2 that found an item at a positive distance
\* below the root, with a farther candidate stored and a non-empty child of
\* the root cut off by the bound.
ClosestOptimalWitness ==
    /\ last.op = "findClosest"
    /\ contains(mBox, last.searchBox)
    /\ ~ last.found.isNull
    /\ Len(last.found.node) >= 1
    /\ \E n \in DOMAIN nodes : Len(n) = 2
    /\ LET best == distanceTo(nodes, << last.found.node, last.found.idx >>, last.searchBox)
       IN  /\ best > 0
           /\ \E place \in Candidates(nodes, last.predicate) :
                 distanceTo(nodes, place, last.searchBox) > best
           /\ \E i \in 0..3 :
                 /\ child(mRoot, i) \in DOMAIN nodes
                 /\ Len(nodes[child(mRoot, i)]) > 0
                 /\ distanceSq(last.searchBox, computeBox(mBox, i)) > best

\* ------------------------------------------------------------------- C4

\* C4: findClosest returns nullptr only if no stored item satisfies the
\* predicate, wherever the search box lies.
ClosestNullOnlyIfNone ==
    (last.op = "findClosest" /\ last.found.isNull) =>
        Candidates(nodes, last.predicate) = {}

\* ------------------------------------------------------------------- C5

\* C5: every stored item lies within the region of its node, and the
\* assertion box.contains(mGetBox(value)) of add and remove does not fail for
\* an item within the world box.
Containment ==
    /\ \A n \in DOMAIN nodes : \A k \in 1..Len(nodes[n]) :
          contains(region(n), getBox(nodes[n][k]))
    /\ (last.op = "add" /\ contains(mBox, getBox(last.value))) =>
          err # "add: box.contains(mGetBox(value))"
    /\ (last.op = "remove" /\ contains(mBox, getBox(last.value))) =>
          err # "remove: box.contains(mGetBox(value))"

\* An add that split twice and stored its item at depth 2, beside an item
\* kept at depth 1 because it straddles the centre of that node.
ContainmentWitness ==
    /\ last.op = "add"
    /\ last.splits = 2
    /\ Len(last.site) = 2
    /\ \E n \in DOMAIN nodes : Len(n) = 1 /\ ~ isLeaf(nodes, n) /\ Len(nodes[n]) > 0

\* ------------------------------------------------------------------- C6

\* C6: the number of items over all buckets is the number of completed adds
\* minus the number of completed removes.
StorageCount == size(nodes) = balance

\* A remove that merged four children into their parent, which still holds
\* items.
StorageCountWitness ==
    /\ last.op = "remove"
    /\ err = NoErr
    /\ last.merges = 1
    /\ Len(nodes[parentOf(last.site)]) >= 2

\* ------------------------------------------------------------------- C7

\* C7: a leaf above depth MaxDepth holds at most Threshold items.
LeafThreshold ==
    \A n \in DOMAIN nodes :
        (isLeaf(nodes, n) /\ Len(n) < MaxDepth) => Len(nodes[n]) <= Threshold

\* An add into a leaf at depth MaxDepth that holds more than Threshold items,
\* made by two splits none of which left a leaf above it over Threshold.
LeafThresholdWitness ==
    /\ last.op = "add"
    /\ last.splits = 2
    /\ Len(last.site) = MaxDepth
    /\ Len(nodes[last.site]) > Threshold
    /\ \E n \in DOMAIN nodes : isLeaf(nodes, n) /\ Len(n) < MaxDepth

\* ------------------------------------------------------------------- C8

\* C8: every node has all four child slots occupied or none, and the root
\* exists.
ChildSlots ==
    /\ mRoot \in DOMAIN nodes
    /\ \A n \in DOMAIN nodes : childSlots(nodes, n) \in { {}, 0..3 }

\* A remove that merged, below a root that is still interior.
ChildSlotsWitness ==
    /\ last.op = "remove"
    /\ err = NoErr
    /\ last.merges = 1
    /\ ~ isLeaf(nodes, mRoot)

\* ------------------------------------------------------------------- C9

\* An interior node whose children are all leaves, holding at most Threshold
\* items together with them.
Mergeable(t, n) ==
    /\ n \in DOMAIN t
    /\ childSlots(t, n) = 0..3
    /\ \A i \in 0..3 : isLeaf(t, child(n, i))
    /\ Len(t[n]) + Len(childrenValues(t, n, 0)) <= Threshold

\* C9: after a remove that took its item out of a leaf with a parent, the
\* parent is not left mergeable; when it was merged it is a leaf.
MergeAfterRemove ==
    (last.op = "remove" /\ err = NoErr /\ last.atLeaf /\ Len(last.site) > 0) =>
        /\ ~ Mergeable(nodes, parentOf(last.site))
        /\ last.merges = 1 => isLeaf(nodes, parentOf(last.site))
        /\ last.merges = 0 => ~ isLeaf(nodes, parentOf(last.site))

\* A remove at a leaf that brought its parent down to exactly Threshold
\* items, merged into a leaf.
MergeAfterRemoveWitness ==
    /\ last.op = "remove"
    /\ err = NoErr
    /\ last.atLeaf
    /\ Len(last.site) > 0
    /\ last.merges = 1
    /\ Len(nodes[parentOf(last.site)]) = Threshold

\* ------------------------------------------------------------------ C10

\* Equal multisets of stored items.
SameItems(s, t) == \A v \in Items : Stored(s, v) = Stored(t, v)

\* add(value) followed at once by remove(value), from the tree t.
addThenRemove(t, value) ==
    LET a == add(t, mRoot, 0, mBox, value, 0)
        r == remove(a.nodes, mRoot, Nullptr, mBox, value)
    IN  [nodes |-> r.nodes, ok |-> a.err = NoErr /\ r.err = NoErr, splits |-> a.splits]

\* C10: from every state between calls, add(x) followed at once by remove(x)
\* succeeds and leaves the multiset of stored items as it was.
RoundTrip ==
    (last = NoCall /\ size(nodes) < MaxItems) =>
        \A value \in InsideItems :
            /\ addThenRemove(nodes, value).ok
            /\ SameItems(addThenRemove(nodes, value).nodes, nodes)

\* A state from which the add of a round trip splits twice and the round
\* trip does not restore the shape of the tree.
RoundTripWitness ==
    /\ last = NoCall
    /\ size(nodes) < MaxItems
    /\ \E value \in InsideItems :
          /\ addThenRemove(nodes, value).splits = 2
          /\ addThenRemove(nodes, value).ok
          /\ addThenRemove(nodes, value).nodes # nodes

\* ------------------------------------------------------------------ C11

\* C11: query fails no assertion, whatever the query box and the tree.
QueryNeverFails == last.op = "query" => err = NoErr

\* ------------------------------------------------------------------ C12

\* C12: an add of an item whose box is not within the world box fails the
\* assertion at the root with no split made and the tree, and the count of
\* completed adds, as they were; an add of an item within the world box
\* fails no assertion.
AddPrecondition ==
    [][(last = NoCall /\ last'.op = "add") =>
          IF contains(mBox, getBox(last'.value))
          THEN err' = NoErr
          ELSE /\ err' = "add: box.contains(mGetBox(value))"
               /\ last'.site = mRoot
               /\ last'.splits = 0
               /\ nodes' = nodes
               /\ balance' = balance]_vars

\* A failed add of an item not within the world box, on a tree whose root is
\* a leaf that an accepted add would have split.
AddPreconditionWitness ==
    /\ last.op = "add"
    /\ ~ contains(mBox, getBox(last.value))
    /\ err = "add: box.contains(mGetBox(value))"
    /\ isLeaf(nodes, mRoot)
    /\ Len(nodes[mRoot]) = Threshold

\* ------------------------------------------------------------------ C13

\* C13: a remove of an item (within the world box) to which no value of the
\* node its descent reaches is equal fails the assertion of removeValue with
\* no merge tried and the tree, and the count of completed removes, as they
\* were.
RemovePrecondition ==
    [][(/\ last = NoCall
        /\ last'.op = "remove"
        /\ contains(mBox, getBox(last'.value))
        /\ findIf(nodes[last'.site], last'.value) = 0) =>
          /\ err' = "removeValue: value not present in the node"
          /\ last'.tried = 0
          /\ nodes' = nodes
          /\ balance' = balance]_vars

\* A failed remove of an absent item whose descent reached a non-empty leaf
\* below a parent that a call of tryMerge would have merged.
RemovePreconditionWitness ==
    /\ last.op = "remove"
    /\ err = "removeValue: value not present in the node"
    /\ last.atLeaf
    /\ Len(last.site) > 0
    /\ Len(nodes[last.site]) > 0
    /\ Mergeable(nodes, parentOf(last.site))

\* ------------------------------------------------------------------ C14

\* The gap between the intervals [lo1, hi1] and [lo2, hi2]: 0 when they
\* overlap or touch.
Gap(lo1, hi1, lo2, hi2) ==
    IF hi1 < lo2 THEN lo2 - hi1
    ELSE IF hi2 < lo1 THEN lo1 - hi2
    ELSE 0

GapX(a, b) == Gap(a.left, a.left + a.width, b.left, b.left + b.width)

GapY(a, b) == Gap(a.top, a.top + a.height, b.top, b.top + b.height)

\* C14: the square of distance(a, b) is the sum of the squares of the gaps on
\* the two axes (0 when the boxes overlap or touch, the square of the one gap
\* when they are apart on one axis, the squared corner distance when apart on
\* both), and distance(a, b) = distance(b, a).
DistanceCases ==
    last.op = "distance" =>
        /\ last.result = GapX(last.a, last.b) * GapX(last.a, last.b)
                           + GapY(last.a, last.b) * GapY(last.a, last.b)
        /\ (GapX(last.a, last.b) = 0 /\ GapY(last.a, last.b) = 0) => last.result = 0
        /\ last.result = distanceSq(last.b, last.a)

\* The distance of the test's boxes (10,10) and (30,30), apart on both axes:
\* the square of 14.14213562373 is 200.
DistanceCasesWitness ==
    /\ last.op = "distance"
    /\ last.a = Box(10, 10, 10, 10)
    /\ last.b = Box(30, 30, 10, 10)
    /\ last.result = 200

\* ------------------------------------------------------------------ C15

\* C15: every item in the bucket of an interior node classifies into no
\* quadrant of the region of that node.
PushDown ==
    \A n \in DOMAIN nodes :
        ~ isLeaf(nodes, n) =>
            \A k \in 1..Len(nodes[n]) : getQuadrant(region(n), getBox(nodes[n][k])) = -1

\* A remove that merged a node below an interior root that keeps an item,
\* while other items lie below the root.
PushDownWitness ==
    /\ last.op = "remove"
    /\ err = NoErr
    /\ last.merges = 1
    /\ ~ isLeaf(nodes, mRoot)
    /\ Len(nodes[mRoot]) > 0
    /\ size(nodes) > Len(nodes[mRoot])

\* ------------------------------------------------------------------ C16

\* The items kept at interior nodes, as (node, index).
Retained(t) == { place \in Places(t) : ~ isLeaf(t, place[1]) }

\* The child regions of node n that contain a box, by Box.contains.
containingChildren(n, box) == { i \in 0..3 : contains(computeBox(region(n), i), box) }

NoMergeableAfterRemove ==
    (last.op = "remove" /\ err = NoErr) =>
        \A n \in DOMAIN nodes : ~ Mergeable(nodes, n)

\* The nodes a remove described by call may leave newly mergeable: the
\* interior node whose own bucket gave the item, and the parent of the node
\* that the remove merged.
mayBecomeMergeable(call) ==
    IF ~ call.atLeaf THEN { call.site }
    ELSE IF call.merges = 1 /\ Len(call.site) >= 2
    THEN { parentOf(parentOf(call.site)) }
    ELSE {}

\* C17 as amended: in the state left by a remove, the direct parent of the
\* leaf the item was taken from is not mergeable, and a node is mergeable
\* only if it already was before the remove, or is the interior node whose
\* own bucket gave the item, or is the parent of the node the remove merged.
MergeableOnlyOffSite ==
    [][(last'.op = "remove" /\ err' = NoErr) =>
        \A n \in DOMAIN nodes' :
            Mergeable(nodes', n) =>
                /\ ~ (last'.atLeaf /\ Len(last'.site) > 0 /\ n = parentOf(last'.site))
                /\ \/ Mergeable(nodes, n)
                   \/ n \in mayBecomeMergeable(last')]_vars

\* A remove that took a straddling item out of an interior node's own bucket
\* and left that node mergeable.
MergeableOnlyOffSiteWitness ==
    /\ last.op = "remove" /\ err = NoErr /\ ~ last.atLeaf
    /\ Mergeable(nodes, last.site)

\* ------------------------------------------------------------------ C18

\* The nodes of tree t that are gone in tree u.
destroyed(t, u) == DOMAIN t \ DOMAIN u

\* C18: a remove calls tryMerge at most once, and only after taking its item
\* from a leaf with a parent; it destroys no node, or exactly the four
\* children of that parent; the parent's parent stays interior; and tryMerge
\* leaves the tree as it is when a child of its argument is interior.
SingleLevelMerge ==
    [][(last'.op = "remove" /\ err' = NoErr) =>
        /\ last'.tried <= 1
        /\ last'.tried = 1 => (last'.atLeaf /\ Len(last'.site) > 0)
        /\ last'.merges <= last'.tried
        /\ DOMAIN nodes' \subseteq DOMAIN nodes
        /\ last'.merges = 0 => destroyed(nodes, nodes') = {}
        /\ last'.merges = 1 =>
              /\ destroyed(nodes, nodes') = { child(parentOf(last'.site), i) : i \in 0..3 }
              /\ Cardinality(destroyed(nodes, nodes')) = 4
              /\ Len(last'.site) >= 2 => ~ isLeaf(nodes', parentOf(parentOf(last'.site)))
        /\ \A n \in DOMAIN nodes :
              (~ isLeaf(nodes, n) /\ \E i \in 0..3 : ~ isLeaf(nodes, child(n, i))) =>
                  tryMerge(nodes, n) = [nodes |-> nodes, err |-> NoErr, merged |-> FALSE]]_vars

\* A remove two levels down that merged the parent of its leaf and left the
\* root with four leaf children and at most Threshold items, not collapsed.
SingleLevelMergeWitness ==
    /\ last.op = "remove" /\ err = NoErr /\ last.merges = 1
    /\ Len(last.site) = 2
    /\ Mergeable(nodes, mRoot)

\* ------------------------------------------------------------------ C19

\* The places of the subtree of n in the order findClosestImpl meets them when
\* nothing is pruned: the bucket of n in stored order, then the children in
\* the order of childOrder.
RECURSIVE traversal(_, _, _, _)
traversal(t, n, nodeBox, searchBox) ==
    LET indices == childOrder(searchBox, nodeBox)
        below(k) == IF child(n, indices[k]) \in DOMAIN t
                    THEN traversal(t, child(n, indices[k]),
                                   computeBox(nodeBox, indices[k]), searchBox)
                    ELSE << >>
    IN  [k \in 1..Len(t[n]) |-> << n, k >>] \o below(1) \o below(2) \o below(3) \o below(4)

\* The least distance from searchBox of the items the predicate accepts.
minDistance(t, searchBox, predicate) ==
    CHOOSE d \in { distanceTo(t, place, searchBox) : place \in Candidates(t, predicate) } :
        \A place \in Candidates(t, predicate) : d <= distanceTo(t, place, searchBox)

\* The accepted items at the least distance.
Tied(t, searchBox, predicate) ==
    { place \in Candidates(t, predicate) :
        distanceTo(t, place, searchBox) = minDistance(t, searchBox, predicate) }

\* The first of them in traversal order.
firstTied(t, searchBox, predicate) ==
    LET order == traversal(t, mRoot, mBox, searchBox)
        first == CHOOSE k \in 1..Len(order) :
                    /\ order[k] \in Tied(t, searchBox, predicate)
                    /\ \A j \in 1..(k - 1) : order[j] \notin Tied(t, searchBox, predicate)
    IN  order[first]

\* C19: when several accepted items are at the same least distance from the
\* search box, findClosest returns the first of them in traversal order.
TieBreakFirst ==
    (/\ last.op = "findClosest"
     /\ Cardinality(Tied(nodes, last.searchBox, last.predicate)) >= 2) =>
        /\ ~ last.found.isNull
        /\ << last.found.node, last.found.idx >>
              = firstTied(nodes, last.searchBox, last.predicate)

\* The same for the searches in which the least distance is below the
\* initial bound of findClosest: there the first of the tied items is
\* returned, wherever the search box lies.
TieBreakFirstBelowBound ==
    (/\ last.op = "findClosest"
     /\ Cardinality(Tied(nodes, last.searchBox, last.predicate)) >= 2
     /\ minDistance(nodes, last.searchBox, last.predicate) < initialBestSq) =>
        /\ ~ last.found.isNull
        /\ << last.found.node, last.found.idx >>
              = firstTied(nodes, last.searchBox, last.predicate)

\* A search below the initial bound with tied items in two nodes of a split
\* tree, the one returned not being the last stored.
TieBreakFirstBelowBoundWitness ==
    /\ last.op = "findClosest" /\ ~ last.found.isNull
    /\ ~ isLeaf(nodes, mRoot)
    /\ \E p \in Tied(nodes, last.searchBox, last.predicate),
          q \in Tied(nodes, last.searchBox, last.predicate) : p[1] # q[1]
    /\ minDistance(nodes, last.searchBox, last.predicate) > 0

\* ------------------------------------------------------------------ C20

\* The nodes an add created, and the nodes it split.
created(t, u) == DOMAIN u \ DOMAIN t

splitNodes(t, u) == { parentOf(p) : p \in created(t, u) }

\* C20: an add performs at most MaxDepth splits, four new nodes each; a node
\* it splits lies above MaxDepth and, when it was there before the call, was
\* a leaf holding Threshold items; no node lies deeper than MaxDepth.
AddSplitsBounded ==
    [][last'.op = "add" =>
        /\ last'.splits <= MaxDepth
        /\ Cardinality(splitNodes(nodes, nodes')) = last'.splits
        /\ Cardinality(created(nodes, nodes')) = 4 * last'.splits
        /\ DOMAIN nodes \subseteq DOMAIN nodes'
        /\ \A s \in splitNodes(nodes, nodes') :
              /\ Len(s) < MaxDepth
              /\ ~ isLeaf(nodes', s)
              /\ s \in DOMAIN nodes => (isLeaf(nodes, s) /\ Len(nodes[s]) = Threshold)
              /\ s \notin DOMAIN nodes => parentOf(s) \in splitNodes(nodes, nodes')
        /\ \A n \in DOMAIN nodes' : Len(n) <= MaxDepth]_vars

\* An add of one more item with the box of Threshold stored ones: every
\* split sent all of them into the same child, MaxDepth splits in the one
\* call, and the leaf at MaxDepth took the item beyond Threshold.
AddSplitsBoundedWitness ==
    /\ last.op = "add" /\ err = NoErr
    /\ last.splits = MaxDepth
    /\ Len(last.site) = MaxDepth
    /\ Len(nodes[last.site]) = Threshold + 1
    /\ \A k \in 1..Len(nodes[last.site]) : getBox(nodes[last.site][k]) = getBox(last.value)
    /\ size(nodes) = Threshold + 1

\* ------------------------------------------------------------------ C21

\* The node the descent of remove ends in for a box: from node n of region
\* box down by getQuadrant, until n is a leaf or getQuadrant gives -1.
RECURSIVE descent(_, _, _, _)
descent(t, n, box, valueBox) ==
    IF isLeaf(t, n) THEN n
    ELSE LET i == getQuadrant(box, valueBox)
         IN  IF i # -1
             THEN descent(t, child(n, i), computeBox(box, i), valueBox)
             ELSE n

\* C21: every stored item sits in the node the descent of remove reaches for
\* its box; a remove of it passes every assertion, takes it from that node
\* and leaves one copy fewer in the tree.
LocationDeterminism ==
    \A place \in Places(nodes) :
        LET value == valueAt(nodes, place)
            r == remove(nodes, mRoot, Nullptr, mBox, value)
        IN  /\ descent(nodes, mRoot, mBox, getBox(value)) = place[1]
            /\ r.err = NoErr
            /\ r.site = place[1]
            /\ Stored(r.nodes, value) = Stored(nodes, value) - 1

\* The state left by a remove that merged a node below the root: the items
\* the merge moved up sit in the merged node, next to an item kept at the
\* interior root, and an earlier add of the tree had split twice to store
\* them two levels down.
LocationDeterminismWitness ==
    /\ last.op = "remove" /\ err = NoErr /\ last.merges = 1
    /\ Len(last.site) = 2
    /\ Len(nodes[parentOf(last.site)]) > 0
    /\ ~ isLeaf(nodes, mRoot) /\ Len(nodes[mRoot]) > 0

====
